---- MODULE Spec2Model ----
(***************************************************************************)
(* The in-memory follow graph of the Social Network API (src/graph.py,     *)
(* class SocialGraph) and the request handlers of src/main.py that keep it *)
(* in step with the relational store.                                      *)
(*                                                                         *)
(* The graph is two Python dicts of lists.  A dict is a function whose     *)
(* DOMAIN is its key set; a list is a sequence, so order and multiplicity  *)
(* of entries are part of the state.                                       *)
(***************************************************************************)
EXTENDS Integers, Sequences, FiniteSets, TLC

\* ------------------------------------------------------------------ bounds
\* user ids are 1..MaxUser
MaxUser == 3
\* no call appends to a following list once the lists hold MaxEdges entries in all
MaxEdges == 2
\* the same cap for the graphs that queries are asked on
MaxQueryEdges == 3
\* the server's user ids are 1..MaxAppUser
MaxAppUser == 2
\* table followers holds at most MaxRows rows, and get_feed is not called once
\* the following lists hold more than MaxRows entries in all
MaxRows == 1
\* request handlers that run at the same time
MaxThreads == 2
\* graph calls that one handler thread makes, one after the other
MaxCalls == 2

\* get_community_size is asked with max_depth in 0..MaxDepth
MaxDepth == 2
\* the ranking queries are asked on graphs over the ids 1..MaxRankUser whose
\* following lists hold at most MaxRankEdges entries in all
MaxRankUser == 3
MaxRankEdges == 2
\* the same for the graphs suggestions are asked on
MaxSuggestUser == 4
MaxSuggestEdges == 4
\* the loops of shortest_path_bfs and get_community_size are stepped on graphs
\* over the ids 1..MaxLoopUser whose following lists hold at most MaxLoopEdges
\* entries in all
MaxLoopUser == 3
MaxLoopEdges == 2
\* the limit parameter ranges over -1..MaxLimit
MaxLimit == 2
\* the min_followers parameter ranges over 0..MaxMinFollowers
MaxMinFollowers == 1

Ids == 1..MaxUser

RankIds == 1..MaxRankUser

SuggestIds == 1..MaxSuggestUser

LoopIds == 1..MaxLoopUser

Depths == 0..MaxDepth

Limits == (0 - 1)..MaxLimit


AppIds == 1..MaxAppUser

VARIABLES
    adjacency_list,          \* {user_id: [followed_user_ids]}
    reverse_adjacency_list,  \* {user_id: [follower_ids]}
    last,                    \* the last call made, its outcome and the graph it started from
    trip,                    \* after follow_user(a, b); unfollow_user(a, b): the graph before the two
    db_users,                \* the ids of the rows of table users
    db_followers,            \* the rows of table followers: <<follower_id, followed_id>>
    phase,                   \* "off": no server; "startup": load_graph runs; "serving"
    loaded,                  \* the users load_graph has iterated over so far, in order
    threads                  \* the graph calls in progress in concurrent request handlers

graphvars == <<adjacency_list, reverse_adjacency_list>>
appvars == <<db_users, db_followers, phase, loaded>>
vars == <<adjacency_list, reverse_adjacency_list, last, trip, db_users, db_followers, phase,
          loaded, threads>>

\* ------------------------------------------------------------ Python lists
\* x in s
Contains(s, x) == \E i \in DOMAIN s : s[i] = x

\* s.count(x)
Count(s, x) == Cardinality({i \in DOMAIN s : s[i] = x})

\* set(s)
Elems(s) == {s[i] : i \in DOMAIN s}

\* s.remove(x): drops the first occurrence of x (the caller checks Contains)
ListRemove(s, x) ==
    LET k == CHOOSE i \in DOMAIN s : s[i] = x /\ \A j \in 1..(i - 1) : s[j] # x
    IN  SubSeq(s, 1, k - 1) \o SubSeq(s, k + 1, Len(s))

\* ------------------------------------------------------------- SocialGraph
\* a graph value: the two dicts
Graph(adj, rev) == [adj |-> adj, rev |-> rev]

\* the result of a call that changes the graph: the graph after it and
\* whether the call raised
Outcome(adj, rev, raised) == [adj |-> adj, rev |-> rev, raised |-> raised]

\* SocialGraph.__init__
EmptyGraph == Graph(<<>>, <<>>)

\* d[k] = v on a dict
DictSet(d, k, v) == [x \in (DOMAIN d) \cup {k} |-> IF x = k THEN v ELSE d[x]]

\* add_user without the test of line 18: a registered user's lists are reset
add_user_overwrite(g, user_id) ==
    Graph(DictSet(g.adj, user_id, <<>>), DictSet(g.rev, user_id, <<>>))

\* add_user without line 20: no followers list is made
add_user_forward_only(g, user_id) ==
    IF user_id \notin DOMAIN g.adj
    THEN Graph(DictSet(g.adj, user_id, <<>>), g.rev)
    ELSE g

\* SocialGraph.add_user
add_user(g, user_id) ==
    IF user_id \notin DOMAIN g.adj
    THEN Graph(DictSet(g.adj, user_id, <<>>), DictSet(g.rev, user_id, <<>>))
    ELSE g

\* follow_user without the membership test of line 33
follow_user_unguarded(g, follower_id, followed_id) ==
    LET g1 == add_user(g, follower_id)
        g2 == add_user(g1, followed_id)
    IN  Outcome(DictSet(g2.adj, follower_id, Append(g2.adj[follower_id], followed_id)),
                DictSet(g2.rev, followed_id, Append(g2.rev[followed_id], follower_id)),
                FALSE)

\* SocialGraph.follow_user
follow_user(g, follower_id, followed_id) ==
    LET g1 == IF follower_id \notin DOMAIN g.adj THEN add_user(g, follower_id) ELSE g
        g2 == IF followed_id \notin DOMAIN g1.adj THEN add_user(g1, followed_id) ELSE g1
    IN  IF ~Contains(g2.adj[follower_id], followed_id)
        THEN IF followed_id \in DOMAIN g2.rev
             THEN Outcome(DictSet(g2.adj, follower_id, Append(g2.adj[follower_id], followed_id)),
                          DictSet(g2.rev, followed_id, Append(g2.rev[followed_id], follower_id)),
                          FALSE)
             \* KeyError on reverse_adjacency_list[followed_id], after line 34 ran
             ELSE Outcome(DictSet(g2.adj, follower_id, Append(g2.adj[follower_id], followed_id)),
                          g2.rev, TRUE)
        ELSE Outcome(g2.adj, g2.rev, FALSE)

\* unfollow_user without line 45: the followers list keeps the follower
unfollow_user_forward_only(g, follower_id, followed_id) ==
    IF follower_id \in DOMAIN g.adj /\ Contains(g.adj[follower_id], followed_id)
    THEN Outcome(DictSet(g.adj, follower_id, ListRemove(g.adj[follower_id], followed_id)),
                 g.rev, FALSE)
    ELSE Outcome(g.adj, g.rev, FALSE)

\* unfollow_user with list.clear() in place of list.remove(x): empties both lists
unfollow_user_clear(g, follower_id, followed_id) ==
    IF follower_id \in DOMAIN g.adj /\ Contains(g.adj[follower_id], followed_id)
    THEN Outcome(DictSet(g.adj, follower_id, <<>>),
                 DictSet(g.rev, followed_id, <<>>),
                 FALSE)
    ELSE Outcome(g.adj, g.rev, FALSE)

\* SocialGraph.unfollow_user
unfollow_user(g, follower_id, followed_id) ==
    IF follower_id \in DOMAIN g.adj /\ Contains(g.adj[follower_id], followed_id)
    THEN LET adj1 == DictSet(g.adj, follower_id, ListRemove(g.adj[follower_id], followed_id))
         IN  IF followed_id \in DOMAIN g.rev /\ Contains(g.rev[followed_id], follower_id)
             THEN Outcome(adj1,
                          DictSet(g.rev, followed_id, ListRemove(g.rev[followed_id], follower_id)),
                          FALSE)
             \* KeyError or ValueError on line 45, after line 44 ran
             ELSE Outcome(adj1, g.rev, TRUE)
    ELSE Outcome(g.adj, g.rev, FALSE)

\* SocialGraph.get_following: the list object itself for a registered user,
\* a fresh empty list otherwise
get_following(g, user_id) == IF user_id \in DOMAIN g.adj THEN g.adj[user_id] ELSE <<>>

\* SocialGraph.get_followers
get_followers(g, user_id) == IF user_id \in DOMAIN g.rev THEN g.rev[user_id] ELSE <<>>

\* SocialGraph.is_following
is_following(g, follower_id, followed_id) == Contains(get_following(g, follower_id), followed_id)

\* get_feed, lines 593-594: following_ids is what get_following returned, and
\* the append lands in that same list object
get_feed_ids(g, current_user_id) ==
    LET following_ids == Append(get_following(g, current_user_id), current_user_id)
    IN  [adj |-> IF current_user_id \in DOMAIN g.adj
                 THEN DictSet(g.adj, current_user_id, following_ids)
                 ELSE g.adj,
         rev |-> g.rev,
         ids |-> following_ids]

\* SocialGraph.detect_mutual_following
detect_mutual_following(g, user1_id, user2_id) ==
    is_following(g, user1_id, user2_id) /\ is_following(g, user2_id, user1_id)

RECURSIVE scan_neighbors(_, _, _, _, _, _)
RECURSIVE bfs_loop(_, _, _, _)

\* the for loop of lines 135-140 from the i-th neighbour on: either the path
\* returned on line 137 or the queue after the appends of line 140
scan_neighbors(nbrs, i, end_user, path, visited, queue) ==
    IF i > Len(nbrs) THEN [found |-> FALSE, path |-> <<>>, queue |-> queue]
    ELSE IF nbrs[i] = end_user
         THEN [found |-> TRUE, path |-> Append(path, nbrs[i]), queue |-> queue]
         ELSE scan_neighbors(nbrs, i + 1, end_user, path, visited,
                             IF nbrs[i] \notin visited
                             THEN Append(queue, [user |-> nbrs[i], path |-> Append(path, nbrs[i])])
                             ELSE queue)

\* line 135 reading reverse_adjacency_list in place of adjacency_list
bfs_neighbors_reverse(g, current_user) == get_followers(g, current_user)

\* the neighbours line 135 iterates over
bfs_neighbors(g, current_user) == get_following(g, current_user)

\* the while loop of lines 126-142
bfs_loop(g, end_user, queue, visited) ==
    IF queue = <<>> THEN <<>>
    ELSE LET current_user == Head(queue).user
             path == Head(queue).path
         IN  IF current_user \in visited
             THEN bfs_loop(g, end_user, Tail(queue), visited)
             ELSE LET seen == visited \cup {current_user}
                      r == scan_neighbors(bfs_neighbors(g, current_user), 1, end_user,
                                          path, seen, Tail(queue))
                  IN  IF r.found THEN r.path ELSE bfs_loop(g, end_user, r.queue, seen)

\* SocialGraph.shortest_path_bfs
shortest_path_bfs(g, start_user, end_user) ==
    IF start_user \notin DOMAIN g.adj \/ end_user \notin DOMAIN g.adj THEN <<>>
    ELSE IF start_user = end_user THEN <<start_user>>
    ELSE bfs_loop(g, end_user, <<[user |-> start_user, path |-> <<start_user>>]>>, {})

\* SocialGraph.get_degrees_of_separation
get_degrees_of_separation(g, user1_id, user2_id) ==
    LET path == shortest_path_bfs(g, user1_id, user2_id)
    IN  IF path = <<>> THEN -1 ELSE Len(path) - 1

\* ---------------------------------------------------------- graph queries
\* the orders in which the members of a set, or the keys of a dict, can come
\* out of an iteration
RECURSIVE Orders(_)
Orders(S) ==
    IF S = {} THEN {<<>>}
    ELSE UNION {{<<x>> \o s : s \in Orders(S \ {x})} : x \in S}

\* the lists that list(set) can return for the set S
list_of_set(S) == Orders(S)

\* SocialGraph.get_mutual_followers: the users both ids follow
get_mutual_followers(g, user1_id, user2_id) ==
    LET following1 == Elems(get_following(g, user1_id))
        following2 == Elems(get_following(g, user2_id))
    IN  list_of_set(following1 \cap following2)

\* SocialGraph.get_mutual_friends: the users that follow both ids
get_mutual_friends(g, user1_id, user2_id) ==
    LET followers1 == Elems(get_followers(g, user1_id))
        followers2 == Elems(get_followers(g, user2_id))
    IN  list_of_set(followers1 \cap followers2)

\* s[:limit]: the first limit entries, or all but the last -limit when limit < 0
slice_to(s, limit) ==
    LET stop == IF limit >= 0
                THEN (IF limit < Len(s) THEN limit ELSE Len(s))
                ELSE (IF Len(s) + limit > 0 THEN Len(s) + limit ELSE 0)
    IN  SubSeq(s, 1, stop)

RECURSIVE sorted_ascending(_)
\* the same sort without reverse=True
sorted_ascending(items) ==
    IF items = <<>> THEN <<>>
    ELSE LET x == Head(items)
             rest == sorted_ascending(Tail(items))
             ahead == Cardinality({i \in DOMAIN rest : rest[i][2] < x[2]})
         IN  SubSeq(rest, 1, ahead) \o <<x>> \o SubSeq(rest, ahead + 1, Len(rest))

RECURSIVE sorted_reverse(_)
\* sorted(items, key=lambda x: x[1], reverse=True) over <<id, key>> pairs: the
\* sort is stable, entries with equal keys keep the order they came in
sorted_reverse(items) ==
    IF items = <<>> THEN <<>>
    ELSE LET x == Head(items)
             rest == sorted_reverse(Tail(items))
             ahead == Cardinality({i \in DOMAIN rest : rest[i][2] > x[2]})
         IN  SubSeq(rest, 1, ahead) \o <<x>> \o SubSeq(rest, ahead + 1, Len(rest))

RECURSIVE two_hops(_, _)
\* the values potential_follow takes in the loops of lines 95-96, in order,
\* when the set following is iterated in the order given
two_hops(g, order) ==
    IF order = <<>> THEN <<>>
    ELSE get_following(g, Head(order)) \o two_hops(g, Tail(order))

RECURSIVE count_suggestions_not_self(_, _, _, _)
\* lines 97-99 with the test of line 98 cut down to potential_follow != user_id
count_suggestions_not_self(hops, user_id, following, suggestions) ==
    IF hops = <<>> THEN suggestions
    ELSE LET potential_follow == Head(hops)
             at == {i \in DOMAIN suggestions : suggestions[i][1] = potential_follow}
         IN  count_suggestions_not_self(Tail(hops), user_id, following,
                 IF potential_follow # user_id
                 THEN IF at = {}
                      THEN Append(suggestions, <<potential_follow, 1>>)
                      ELSE [i \in DOMAIN suggestions |->
                               IF i \in at THEN <<suggestions[i][1], suggestions[i][2] + 1>>
                               ELSE suggestions[i]]
                 ELSE suggestions)

RECURSIVE count_suggestions(_, _, _, _)
\* lines 97-99 over those values: the defaultdict as a list of <<id, count>>
\* pairs in insertion order
count_suggestions(hops, user_id, following, suggestions) ==
    IF hops = <<>> THEN suggestions
    ELSE LET potential_follow == Head(hops)
             at == {i \in DOMAIN suggestions : suggestions[i][1] = potential_follow}
         IN  count_suggestions(Tail(hops), user_id, following,
                 IF potential_follow # user_id /\ potential_follow \notin following
                 THEN IF at = {}
                      THEN Append(suggestions, <<potential_follow, 1>>)
                      ELSE [i \in DOMAIN suggestions |->
                               IF i \in at THEN <<suggestions[i][1], suggestions[i][2] + 1>>
                               ELSE suggestions[i]]
                 ELSE suggestions)

\* lines 102-104 left out: the scores stay the bare counts
add_popularity_skipped(g, suggestions) ==
    [i \in DOMAIN suggestions |-> <<suggestions[i][1], 10 * suggestions[i][2]>>]

\* lines 102-104.  A score is kept in tenths: count + follower_count * 0.1 is
\* the integer 10 * count + follower_count
add_popularity(g, suggestions) ==
    [i \in DOMAIN suggestions |->
        <<suggestions[i][1],
          10 * suggestions[i][2] + Len(get_followers(g, suggestions[i][1]))>>]

\* the full ranking of line 107
rank_suggestions(g, user_id, order) ==
    LET following == Elems(get_following(g, user_id))
    IN  sorted_reverse(add_popularity(g,
            count_suggestions(two_hops(g, order), user_id, following, <<>>)))

\* SocialGraph.suggest_users_to_follow, the set following iterated in the
\* order given
suggest_users_to_follow(g, user_id, limit, order) ==
    slice_to(rank_suggestions(g, user_id, order), limit)

RECURSIVE collect_influencers_above(_, _, _)
\* the loop of lines 162-165 with > in place of >= on line 164
collect_influencers_above(g, keys, min_followers) ==
    IF keys = <<>> THEN <<>>
    ELSE LET follower_count == Len(g.rev[Head(keys)])
             rest == collect_influencers_above(g, Tail(keys), min_followers)
         IN  IF follower_count > min_followers
             THEN <<<<Head(keys), follower_count>>>> \o rest
             ELSE rest

RECURSIVE collect_influencers(_, _, _)
\* the loop of lines 162-165, the dict iterated in the order given
collect_influencers(g, keys, min_followers) ==
    IF keys = <<>> THEN <<>>
    ELSE LET follower_count == Len(g.rev[Head(keys)])
             rest == collect_influencers(g, Tail(keys), min_followers)
         IN  IF follower_count >= min_followers
             THEN <<<<Head(keys), follower_count>>>> \o rest
             ELSE rest

\* SocialGraph.get_influencers, keys being reverse_adjacency_list's keys in
\* the order the dict holds them
get_influencers(g, keys, min_followers, limit) ==
    slice_to(sorted_reverse(collect_influencers(g, keys, min_followers)), limit)

\* SocialGraph.get_popular_in_network
get_popular_in_network(g, user_id, limit) ==
    LET following == get_following(g, user_id)
        popular_users == [i \in DOMAIN following |->
                             <<following[i], Len(get_followers(g, following[i]))>>]
    IN  slice_to(sorted_reverse(popular_users), limit)

RECURSIVE enqueue_unvisited(_, _, _, _)
\* the for loops of lines 191-197: (neighbor, depth + 1) appended for every
\* entry not in visited
enqueue_unvisited(nbrs, visited, depth, queue) ==
    IF nbrs = <<>> THEN queue
    ELSE enqueue_unvisited(Tail(nbrs), visited, depth,
                           IF Head(nbrs) \notin visited
                           THEN Append(queue, <<Head(nbrs), depth + 1>>)
                           ELSE queue)

\* lines 191-193 alone: the followers are not explored
community_neighbors_forward(g, current_user) == get_following(g, current_user)

\* the neighbours lines 191-197 go through: following first, then followers
community_neighbors(g, current_user) ==
    get_following(g, current_user) \o get_followers(g, current_user)

RECURSIVE community_loop(_, _, _, _)
\* the while loop of lines 182-197; the result is the set visited
community_loop(g, max_depth, queue, visited) ==
    IF queue = <<>> THEN visited
    ELSE LET current_user == Head(queue)[1]
             depth == Head(queue)[2]
         IN  IF current_user \in visited \/ depth > max_depth
             THEN community_loop(g, max_depth, Tail(queue), visited)
             ELSE LET seen == visited \cup {current_user}
                  IN  community_loop(g, max_depth,
                          enqueue_unvisited(community_neighbors(g, current_user), seen,
                                            depth, Tail(queue)),
                          seen)

\* SocialGraph.get_community_size
get_community_size(g, user_id, max_depth) ==
    IF user_id \notin DOMAIN g.adj THEN 0
    ELSE Cardinality(community_loop(g, max_depth, <<<<user_id, 0>>>>, {}))

RECURSIVE sum_len(_, _)
\* sum(len(following) for following in d.values())
sum_len(d, keys) ==
    IF keys = {} THEN 0
    ELSE LET k == CHOOSE x \in keys : TRUE IN Len(d[k]) + sum_len(d, keys \ {k})

\* round(n / d, 2) in hundredths, ties to the even hundredth
round2(n, d) ==
    LET q == (100 * n) \div d
        r == (100 * n) % d
    IN  IF 2 * r > d \/ (2 * r = d /\ q % 2 = 1) THEN q + 1 ELSE q

\* SocialGraph.get_network_stats; average_followers is in hundredths
get_network_stats(g) ==
    LET total_users == Cardinality(DOMAIN g.adj)
        total_connections == sum_len(g.adj, DOMAIN g.adj)
    IN  [total_users |-> total_users,
         total_connections |-> total_connections,
         average_followers |-> IF total_users > 0
                               THEN round2(total_connections, total_users)
                               ELSE 0]

\* ------------------------------------------------------------------- state
TheGraph == Graph(adjacency_list, reverse_adjacency_list)

RECURSIVE SumLen(_, _)
\* sum(len(d[k]) for k in keys)
SumLen(d, keys) ==
    IF keys = {} THEN 0
    ELSE LET k == CHOOSE x \in keys : TRUE IN Len(d[k]) + SumLen(d, keys \ {k})

\* the following lists have room for one more entry
Room == SumLen(adjacency_list, DOMAIN adjacency_list) < MaxEdges

\* the record of a call: what was called, with which ids, whether it raised,
\* what it returned, and the graph it was applied to
Call(op, a, b, raised, result, g) ==
    [op |-> op, a |-> a, b |-> b, raised |-> raised, result |-> result,
     pre_adj |-> g.adj, pre_rev |-> g.rev]

NoCall == Call("none", 0, 0, FALSE, <<>>, EmptyGraph)

PreGraph == Graph(last.pre_adj, last.pre_rev)

NoTrip == [on |-> FALSE, adj |-> <<>>, rev |-> <<>>]

TripGraph == Graph(trip.adj, trip.rev)

Init ==
    /\ adjacency_list = <<>>
    /\ reverse_adjacency_list = <<>>
    /\ last = NoCall
    /\ trip = NoTrip
    /\ db_users = {}
    /\ db_followers = {}
    /\ phase = "off"
    /\ loaded = <<>>
    /\ threads = <<>>

\* a call of social_graph.add_user(u)
AddUser(u) ==
    LET g == add_user(TheGraph, u)
    IN  /\ adjacency_list' = g.adj
        /\ reverse_adjacency_list' = g.rev
        /\ last' = Call("add_user", u, 0, FALSE, <<>>, TheGraph)
        /\ trip' = NoTrip
        /\ UNCHANGED <<appvars, threads>>

\* a call of social_graph.follow_user(a, b)
FollowUser(a, b) ==
    LET o == follow_user(TheGraph, a, b)
    IN  /\ Room \/ is_following(TheGraph, a, b)
        /\ adjacency_list' = o.adj
        /\ reverse_adjacency_list' = o.rev
        /\ last' = Call("follow_user", a, b, o.raised, <<>>, TheGraph)
        /\ trip' = NoTrip
        /\ UNCHANGED <<appvars, threads>>

\* a call of social_graph.unfollow_user(a, b)
UnfollowUser(a, b) ==
    LET o == unfollow_user(TheGraph, a, b)
    IN  /\ adjacency_list' = o.adj
        /\ reverse_adjacency_list' = o.rev
        /\ last' = Call("unfollow_user", a, b, o.raised, <<>>, TheGraph)
        /\ trip' = IF last.op = "follow_user" /\ last.a = a /\ last.b = b
                   THEN [on |-> TRUE, adj |-> last.pre_adj, rev |-> last.pre_rev]
                   ELSE NoTrip
        /\ UNCHANGED <<appvars, threads>>

\* get_feed's use of the graph for the signed-in user u
FeedUse(u) ==
    LET o == get_feed_ids(TheGraph, u)
    IN  /\ Room
        /\ adjacency_list' = o.adj
        /\ reverse_adjacency_list' = o.rev
        /\ last' = Call("get_feed", u, 0, FALSE, o.ids, TheGraph)
        /\ trip' = NoTrip
        /\ UNCHANGED <<appvars, threads>>

Next ==
    \/ \E u \in Ids : AddUser(u)
    \/ \E a, b \in Ids : FollowUser(a, b)
    \/ \E a, b \in Ids : UnfollowUser(a, b)

\* the graph component called one call at a time, from the empty graph
Spec == Init /\ [][Next]_vars

ServeNext ==
    \/ Next
    \/ \E u \in Ids : FeedUse(u)

\* the graph component together with the feed handler's use of get_following
ServeSpec == Init /\ [][ServeNext]_vars

\* ---------------------------------------------------------------- queries
\* A query is asked on a graph built by any sequence of calls.  The calls that
\* build the graph leave no record; a query records its arguments and result.
\* Queries leave the graph as it is, so what can follow a query is what can
\* follow the state it was asked in.
QueryRoom == SumLen(adjacency_list, DOMAIN adjacency_list) < MaxQueryEdges

Building == last = NoCall

BuildAddUser(u) ==
    LET g == add_user(TheGraph, u)
    IN  /\ Building
        /\ adjacency_list' = g.adj
        /\ reverse_adjacency_list' = g.rev
        /\ UNCHANGED <<last, trip, appvars, threads>>

BuildFollowUser(a, b) ==
    LET o == follow_user(TheGraph, a, b)
    IN  /\ Building
        /\ QueryRoom
        /\ adjacency_list' = o.adj
        /\ reverse_adjacency_list' = o.rev
        /\ UNCHANGED <<last, trip, appvars, threads>>

BuildUnfollowUser(a, b) ==
    LET o == unfollow_user(TheGraph, a, b)
    IN  /\ Building
        /\ adjacency_list' = o.adj
        /\ reverse_adjacency_list' = o.rev
        /\ UNCHANGED <<last, trip, appvars, threads>>

BuildFeedUse(u) ==
    LET o == get_feed_ids(TheGraph, u)
    IN  /\ Building
        /\ QueryRoom
        /\ adjacency_list' = o.adj
        /\ reverse_adjacency_list' = o.rev
        /\ UNCHANGED <<last, trip, appvars, threads>>

\* a call of social_graph.shortest_path_bfs(s, e)
ShortestPathBfs(s, e) ==
    /\ Building
    /\ last' = Call("shortest_path_bfs", s, e, FALSE, shortest_path_bfs(TheGraph, s, e), TheGraph)
    /\ UNCHANGED <<graphvars, trip, appvars, threads>>

\* a call of social_graph.get_degrees_of_separation(s, e)
DegreesOfSeparation(s, e) ==
    /\ Building
    /\ last' = Call("get_degrees_of_separation", s, e, FALSE,
                    <<get_degrees_of_separation(TheGraph, s, e)>>, TheGraph)
    /\ UNCHANGED <<graphvars, trip, appvars, threads>>

QueryNext ==
    \/ \E u \in Ids : BuildAddUser(u)
    \/ \E a, b \in Ids : BuildFollowUser(a, b)
    \/ \E a, b \in Ids : BuildUnfollowUser(a, b)
    \/ \E u \in Ids : BuildFeedUse(u)
    \/ \E s, e \in Ids : ShortestPathBfs(s, e)
    \/ \E s, e \in Ids : DegreesOfSeparation(s, e)

QuerySpec == Init /\ [][QueryNext]_vars

\* a call of social_graph.get_community_size(u, d)
CommunitySize(u, d) ==
    /\ Building
    /\ last' = Call("get_community_size", u, d, FALSE,
                    <<get_community_size(TheGraph, u, d)>>, TheGraph)
    /\ UNCHANGED <<graphvars, trip, appvars, threads>>

\* a call of social_graph.get_mutual_followers(a, b)
MutualFollowers(a, b) ==
    /\ Building
    /\ \E r \in get_mutual_followers(TheGraph, a, b) :
           last' = Call("get_mutual_followers", a, b, FALSE, r, TheGraph)
    /\ UNCHANGED <<graphvars, trip, appvars, threads>>

\* a call of social_graph.get_mutual_friends(a, b)
MutualFriends(a, b) ==
    /\ Building
    /\ \E r \in get_mutual_friends(TheGraph, a, b) :
           last' = Call("get_mutual_friends", a, b, FALSE, r, TheGraph)
    /\ UNCHANGED <<graphvars, trip, appvars, threads>>

\* a call of social_graph.get_network_stats()
NetworkStats ==
    /\ Building
    /\ last' = Call("get_network_stats", 0, 0, FALSE, get_network_stats(TheGraph), TheGraph)
    /\ UNCHANGED <<graphvars, trip, appvars, threads>>

ReadNext ==
    \/ \E u \in Ids : BuildAddUser(u)
    \/ \E a, b \in Ids : BuildFollowUser(a, b)
    \/ \E a, b \in Ids : BuildUnfollowUser(a, b)
    \/ \E u \in Ids : BuildFeedUse(u)
    \/ \E u \in Ids, d \in Depths : CommunitySize(u, d)
    \/ \E a, b \in Ids : MutualFollowers(a, b)
    \/ \E a, b \in Ids : MutualFriends(a, b)
    \/ NetworkStats

\* community size, mutual connections and network statistics asked on a graph
\* built by any sequence of calls
ReadSpec == Init /\ [][ReadNext]_vars

\* --------------------------------------------------------------- rankings
\* The ranking queries are asked on graphs built the same way, under bounds of
\* their own: cap is the number of entries the following lists may hold.
GrowAddUser(u) ==
    LET g == add_user(TheGraph, u)
    IN  /\ Building
        /\ adjacency_list' = g.adj
        /\ reverse_adjacency_list' = g.rev
        /\ UNCHANGED <<last, trip, appvars, threads>>

GrowFollowUser(a, b, cap) ==
    LET o == follow_user(TheGraph, a, b)
    IN  /\ Building
        /\ SumLen(adjacency_list, DOMAIN adjacency_list) < cap
        /\ adjacency_list' = o.adj
        /\ reverse_adjacency_list' = o.rev
        /\ UNCHANGED <<last, trip, appvars, threads>>

GrowUnfollowUser(a, b) ==
    LET o == unfollow_user(TheGraph, a, b)
    IN  /\ Building
        /\ adjacency_list' = o.adj
        /\ reverse_adjacency_list' = o.rev
        /\ UNCHANGED <<last, trip, appvars, threads>>

GrowFeedUse(u, cap) ==
    LET o == get_feed_ids(TheGraph, u)
    IN  /\ Building
        /\ SumLen(adjacency_list, DOMAIN adjacency_list) < cap
        /\ adjacency_list' = o.adj
        /\ reverse_adjacency_list' = o.rev
        /\ UNCHANGED <<last, trip, appvars, threads>>

\* what a ranking call returned: keys is the iteration order it met
Ranked(keys, pairs) == [keys |-> keys, pairs |-> pairs]

\* a call of social_graph.suggest_users_to_follow(u, limit)
SuggestUsers(u, limit) ==
    /\ Building
    /\ \E order \in Orders(Elems(get_following(TheGraph, u))) :
           last' = Call("suggest_users_to_follow", u, limit, FALSE,
                        Ranked(order, suggest_users_to_follow(TheGraph, u, limit, order)),
                        TheGraph)
    /\ UNCHANGED <<graphvars, trip, appvars, threads>>

\* a call of social_graph.get_influencers(min_followers, limit)
Influencers(min_followers, limit) ==
    /\ Building
    /\ \E keys \in Orders(DOMAIN reverse_adjacency_list) :
           last' = Call("get_influencers", min_followers, limit, FALSE,
                        Ranked(keys, get_influencers(TheGraph, keys, min_followers, limit)),
                        TheGraph)
    /\ UNCHANGED <<graphvars, trip, appvars, threads>>

\* a call of social_graph.get_popular_in_network(u, limit)
PopularInNetwork(u, limit) ==
    /\ Building
    /\ last' = Call("get_popular_in_network", u, limit, FALSE,
                    Ranked(<<>>, get_popular_in_network(TheGraph, u, limit)), TheGraph)
    /\ UNCHANGED <<graphvars, trip, appvars, threads>>

RankNext ==
    \/ \E u \in RankIds : GrowAddUser(u)
    \/ \E a, b \in RankIds : GrowFollowUser(a, b, MaxRankEdges)
    \/ \E a, b \in RankIds : GrowUnfollowUser(a, b)
    \/ \E u \in RankIds : GrowFeedUse(u, MaxRankEdges)
    \/ \E u \in RankIds, limit \in Limits : SuggestUsers(u, limit)
    \/ \E min_followers \in 0..MaxMinFollowers, limit \in Limits :
           Influencers(min_followers, limit)
    \/ \E u \in RankIds, limit \in Limits : PopularInNetwork(u, limit)

\* the three ranking queries with their limit parameter
RankSpec == Init /\ [][RankNext]_vars

SuggestNext ==
    \/ \E u \in SuggestIds : GrowAddUser(u)
    \/ \E a, b \in SuggestIds : GrowFollowUser(a, b, MaxSuggestEdges)
    \/ \E a, b \in SuggestIds : GrowUnfollowUser(a, b)
    \/ \E u \in SuggestIds : GrowFeedUse(u, MaxSuggestEdges)
    \/ \E u \in SuggestIds, limit \in Limits : SuggestUsers(u, limit)

\* suggestions asked on graphs large enough for two candidates and for two
\* two-hop paths to one candidate
SuggestSpec == Init /\ [][SuggestNext]_vars

\* ------------------------------------------------------ the search loops
\* shortest_path_bfs and get_community_size one pass of their while loop at a
\* time.  While such a call runs, the result field of last holds the call's
\* locals: pc is "while" before the test of the loop and "return" once the
\* call has returned value; expanded lists, in order, the users whose
\* neighbours the call has gone through.
Locals(pc, queue, visited, expanded, value) ==
    [pc |-> pc, queue |-> queue, visited |-> visited, expanded |-> expanded, value |-> value]

\* lines 117-124: the early returns, or the locals before the first test
path_enter(g, start_user, end_user) ==
    IF start_user \notin DOMAIN g.adj \/ end_user \notin DOMAIN g.adj
    THEN Locals("return", <<>>, {}, <<>>, <<>>)
    ELSE IF start_user = end_user
         THEN Locals("return", <<>>, {}, <<>>, <<start_user>>)
         ELSE Locals("while", <<[user |-> start_user, path |-> <<start_user>>]>>, {}, <<>>, <<>>)

\* the test of line 126 and one pass through lines 127-140, or the return of
\* line 142
path_pass(g, end_user, st) ==
    IF st.queue = <<>> THEN Locals("return", <<>>, st.visited, st.expanded, <<>>)
    ELSE LET current_user == Head(st.queue).user
             path == Head(st.queue).path
         IN  IF current_user \in st.visited
             THEN Locals("while", Tail(st.queue), st.visited, st.expanded, <<>>)
             ELSE LET seen == st.visited \cup {current_user}
                      r == scan_neighbors(bfs_neighbors(g, current_user), 1, end_user,
                                          path, seen, Tail(st.queue))
                  IN  IF r.found
                      THEN Locals("return", Tail(st.queue), seen,
                                  Append(st.expanded, current_user), r.path)
                      ELSE Locals("while", r.queue, seen,
                                  Append(st.expanded, current_user), <<>>)

\* lines 176-180: the early return, or the locals before the first test
community_enter(g, user_id) ==
    IF user_id \notin DOMAIN g.adj
    THEN Locals("return", <<>>, {}, <<>>, <<0>>)
    ELSE Locals("while", <<<<user_id, 0>>>>, {}, <<>>, <<>>)

\* one pass with the test of line 185 cut down to depth > max_depth: a user
\* taken from the queue is expanded whether or not it is in visited
community_pass_untested(g, max_depth, st) ==
    IF st.queue = <<>>
    THEN Locals("return", <<>>, st.visited, st.expanded, <<Cardinality(st.visited)>>)
    ELSE LET current_user == Head(st.queue)[1]
             depth == Head(st.queue)[2]
         IN  IF depth > max_depth
             THEN Locals("while", Tail(st.queue), st.visited, st.expanded, <<>>)
             ELSE LET seen == st.visited \cup {current_user}
                  IN  Locals("while",
                             enqueue_unvisited(community_neighbors(g, current_user), seen,
                                               depth, Tail(st.queue)),
                             seen, Append(st.expanded, current_user), <<>>)

\* the test of line 182 and one pass through lines 183-197, or the return of
\* line 199
community_pass(g, max_depth, st) ==
    IF st.queue = <<>>
    THEN Locals("return", <<>>, st.visited, st.expanded, <<Cardinality(st.visited)>>)
    ELSE LET current_user == Head(st.queue)[1]
             depth == Head(st.queue)[2]
         IN  IF current_user \in st.visited \/ depth > max_depth
             THEN Locals("while", Tail(st.queue), st.visited, st.expanded, <<>>)
             ELSE LET seen == st.visited \cup {current_user}
                  IN  Locals("while",
                             enqueue_unvisited(community_neighbors(g, current_user), seen,
                                               depth, Tail(st.queue)),
                             seen, Append(st.expanded, current_user), <<>>)

\* social_graph.shortest_path_bfs(s, e) is called
PathEnter(s, e) ==
    /\ Building
    /\ last' = Call("shortest_path_bfs", s, e, FALSE, path_enter(TheGraph, s, e), TheGraph)
    /\ UNCHANGED <<graphvars, trip, appvars, threads>>

\* the call goes once through its while loop, or returns
PathPass ==
    /\ last.op = "shortest_path_bfs"
    /\ last.result.pc = "while"
    /\ last' = [last EXCEPT !.result = path_pass(TheGraph, last.b, last.result)]
    /\ UNCHANGED <<graphvars, trip, appvars, threads>>

\* social_graph.get_community_size(u, d) is called
CommunityEnter(u, d) ==
    /\ Building
    /\ last' = Call("get_community_size", u, d, FALSE, community_enter(TheGraph, u), TheGraph)
    /\ UNCHANGED <<graphvars, trip, appvars, threads>>

\* the call goes once through its while loop, or returns
CommunityPass ==
    /\ last.op = "get_community_size"
    /\ last.result.pc = "while"
    /\ last' = [last EXCEPT !.result = community_pass(TheGraph, last.b, last.result)]
    /\ UNCHANGED <<graphvars, trip, appvars, threads>>

LoopNext ==
    \/ \E u \in LoopIds : GrowAddUser(u)
    \/ \E a, b \in LoopIds : GrowFollowUser(a, b, MaxLoopEdges)
    \/ \E a, b \in LoopIds : GrowUnfollowUser(a, b)
    \/ \E u \in LoopIds : GrowFeedUse(u, MaxLoopEdges)
    \/ \E s, e \in LoopIds : PathEnter(s, e)
    \/ PathPass
    \/ \E u \in LoopIds, d \in Depths : CommunityEnter(u, d)
    \/ CommunityPass

\* the two searches stepped through their loops on a graph built by any
\* sequence of calls
LoopSpec == Init /\ [][LoopNext]_vars

\* a call that has been entered keeps running: the thread that made it is
\* scheduled again until the call returns
LoopFairSpec == LoopSpec /\ WF_vars(PathPass) /\ WF_vars(CommunityPass)

\* ------------------------------------------------------- the serving layer
\* what a follow or unfollow request leaves behind: the graph, the rows of
\* table followers, the response status and whether the graph call raised
Resp(adj, rev, rows, status, raised) ==
    [adj |-> adj, rev |-> rev, rows |-> rows, status |-> status, raised |-> raised]

\* follow_user of main.py with social_graph.follow_user moved before db.commit()
http_follow_user_graph_first(g, users, rows, current_user_id, user_id, commit_ok) ==
    IF user_id = current_user_id THEN Resp(g.adj, g.rev, rows, 400, FALSE)
    ELSE IF user_id \notin users THEN Resp(g.adj, g.rev, rows, 404, FALSE)
    ELSE IF <<current_user_id, user_id>> \in rows THEN Resp(g.adj, g.rev, rows, 400, FALSE)
    ELSE LET o == follow_user(g, current_user_id, user_id)
         IN  IF commit_ok
             THEN Resp(o.adj, o.rev, rows \cup {<<current_user_id, user_id>>}, 200, FALSE)
             ELSE Resp(o.adj, o.rev, rows, 500, FALSE)

\* POST /users/{user_id}/follow (follow_user of main.py).  commit_ok: db.commit()
\* on line 224 succeeds; when it raises, the request ends there with the
\* transaction not applied
http_follow_user(g, users, rows, current_user_id, user_id, commit_ok) ==
    IF user_id = current_user_id THEN Resp(g.adj, g.rev, rows, 400, FALSE)
    ELSE IF user_id \notin users THEN Resp(g.adj, g.rev, rows, 404, FALSE)
    ELSE IF <<current_user_id, user_id>> \in rows THEN Resp(g.adj, g.rev, rows, 400, FALSE)
    ELSE IF ~commit_ok THEN Resp(g.adj, g.rev, rows, 500, FALSE)
    ELSE LET o == follow_user(g, current_user_id, user_id)
         IN  Resp(o.adj, o.rev, rows \cup {<<current_user_id, user_id>>},
                  IF o.raised THEN 500 ELSE 200, o.raised)

\* DELETE /users/{user_id}/unfollow (unfollow_user of main.py)
http_unfollow_user(g, users, rows, current_user_id, user_id, commit_ok) ==
    IF user_id \notin users THEN Resp(g.adj, g.rev, rows, 404, FALSE)
    ELSE IF <<current_user_id, user_id>> \notin rows THEN Resp(g.adj, g.rev, rows, 400, FALSE)
    ELSE IF ~commit_ok THEN Resp(g.adj, g.rev, rows, 500, FALSE)
    ELSE LET o == unfollow_user(g, current_user_id, user_id)
         IN  Resp(o.adj, o.rev, rows \ {<<current_user_id, user_id>>},
                  IF o.raised THEN 500 ELSE 200, o.raised)

RECURSIVE replay_following(_, _, _, _)
\* load_graph, lines 36-37, from the i-th entry of user.following on
replay_following(g, user_id, following, i) ==
    IF i > Len(following) THEN g
    ELSE LET o == follow_user(g, user_id, following[i])
         IN  replay_following(Graph(o.adj, o.rev), user_id, following, i + 1)

\* load_graph, lines 35-37, for one user of the outer loop
load_user(g, user_id, following) ==
    replay_following(add_user(g, user_id), user_id, following, 1)

\* the users that user_id follows according to table followers
Following(user_id) == {r[2] : r \in {x \in db_followers : x[1] = user_id}}

\* the orders in which user.following can list the set S, a row possibly twice
Listings(S) ==
    {f \in UNION {[1..n -> S] : n \in Cardinality(S)..(Cardinality(S) + 1)} :
        {f[i] : i \in DOMAIN f} = S}

\* the (follower, followed) pairs of the following lists
ForwardPairs(g) ==
    UNION {{<<u, v>> : v \in Elems(g.adj[u])} : u \in DOMAIN g.adj}

\* the (follower, followed) pairs of the followers lists
ReversePairs(g) ==
    UNION {{<<u, v>> : u \in Elems(g.rev[v])} : v \in DOMAIN g.rev}

Status(code) == <<code>>

\* the server starts on a store of any content
AppInit ==
    /\ adjacency_list = <<>>
    /\ reverse_adjacency_list = <<>>
    /\ last = NoCall
    /\ trip = NoTrip
    /\ db_users \in SUBSET AppIds
    /\ db_followers \in {R \in SUBSET (db_users \X db_users) : Cardinality(R) <= MaxRows}
    /\ phase = "startup"
    /\ loaded = <<>>
    /\ threads = <<>>

Serving == phase = "serving"

\* load_graph: one turn of the loop over users
LoadUser(u, following) ==
    LET g == load_user(TheGraph, u, following)
    IN  /\ phase = "startup"
        /\ u \in db_users \ Elems(loaded)
        /\ adjacency_list' = g.adj
        /\ reverse_adjacency_list' = g.rev
        /\ loaded' = Append(loaded, u)
        /\ UNCHANGED <<last, trip, db_users, db_followers, phase, threads>>

\* load_graph: the loop is over, lines 39-42
LoadFinish ==
    /\ phase = "startup"
    /\ Elems(loaded) = db_users
    /\ phase' = "serving"
    /\ last' = Call("load_graph", 0, 0, FALSE, loaded, EmptyGraph)
    /\ loaded' = <<>>
    /\ UNCHANGED <<graphvars, trip, db_users, db_followers, threads>>

\* POST /register: status 400 when the name or e-mail is taken, 500 when
\* db.commit() raises, else the new row gets id u and add_user(u) follows
Register(u, status) ==
    LET g == IF status = 201 THEN add_user(TheGraph, u) ELSE TheGraph
    IN  /\ Serving
        /\ u \notin db_users
        /\ db_users' = IF status = 201 THEN db_users \cup {u} ELSE db_users
        /\ adjacency_list' = g.adj
        /\ reverse_adjacency_list' = g.rev
        /\ last' = Call("register", u, 0, FALSE, Status(status), TheGraph)
        /\ UNCHANGED <<trip, db_followers, phase, loaded, threads>>

\* POST /users/{uid}/follow by the signed-in user cu
HttpFollow(cu, uid, commit_ok) ==
    LET r == http_follow_user(TheGraph, db_users, db_followers, cu, uid, commit_ok)
    IN  /\ Serving
        /\ cu \in db_users
        /\ Cardinality(db_followers) < MaxRows \/ <<cu, uid>> \in db_followers
        /\ adjacency_list' = r.adj
        /\ reverse_adjacency_list' = r.rev
        /\ db_followers' = r.rows
        /\ last' = Call("http_follow_user", cu, uid, r.raised, Status(r.status), TheGraph)
        /\ UNCHANGED <<trip, db_users, phase, loaded, threads>>

\* DELETE /users/{uid}/unfollow by the signed-in user cu
HttpUnfollow(cu, uid, commit_ok) ==
    LET r == http_unfollow_user(TheGraph, db_users, db_followers, cu, uid, commit_ok)
    IN  /\ Serving
        /\ cu \in db_users
        /\ adjacency_list' = r.adj
        /\ reverse_adjacency_list' = r.rev
        /\ db_followers' = r.rows
        /\ last' = Call("http_unfollow_user", cu, uid, r.raised, Status(r.status), TheGraph)
        /\ UNCHANGED <<trip, db_users, phase, loaded, threads>>

\* GET /feed by the signed-in user cu
GetFeed(cu) ==
    LET o == get_feed_ids(TheGraph, cu)
    IN  /\ Serving
        /\ cu \in db_users
        /\ SumLen(adjacency_list, DOMAIN adjacency_list) <= MaxRows
        /\ adjacency_list' = o.adj
        /\ reverse_adjacency_list' = o.rev
        /\ last' = Call("get_feed", cu, 0, FALSE, o.ids, TheGraph)
        /\ UNCHANGED <<trip, appvars, threads>>

\* a handler that calls graph queries and builds its response from copies of
\* what they return
ReadOnly(op, cu, uid) ==
    /\ Serving
    /\ cu \in db_users
    /\ last' = Call(op, cu, uid, FALSE, <<>>, TheGraph)
    /\ UNCHANGED <<graphvars, trip, appvars, threads>>

\* GET /users/me
GetCurrentUserProfile(cu) == ReadOnly("get_current_user_profile", cu, 0)
\* GET /users/{uid}
GetUserById(cu, uid) == ReadOnly("get_user_by_id", cu, uid)
\* GET /users/{uid}/followers
GetUserFollowers(cu, uid) == ReadOnly("get_user_followers", cu, uid)
\* GET /users/{uid}/following
GetUserFollowing(cu, uid) == ReadOnly("get_user_following", cu, uid)
\* GET /graph/suggestions
GetUserSuggestions(cu) == ReadOnly("get_user_suggestions", cu, 0)
\* GET /graph/connection/{uid}
FindConnectionPath(cu, uid) == ReadOnly("find_connection_path", cu, uid)
\* GET /graph/mutual/{uid}
GetMutualConnections(cu, uid) == ReadOnly("get_mutual_connections", cu, uid)
\* GET /graph/influencers
GetInfluencers(cu) == ReadOnly("get_influencers", cu, 0)
\* GET /graph/network-stats
GetNetworkStatistics(cu) == ReadOnly("get_network_statistics", cu, 0)
\* GET /graph/popular-in-network
GetPopularInMyNetwork(cu) == ReadOnly("get_popular_in_my_network", cu, 0)

ReadOps == {"get_current_user_profile", "get_user_by_id", "get_user_followers",
            "get_user_following", "get_user_suggestions", "find_connection_path",
            "get_mutual_connections", "get_influencers", "get_network_statistics",
            "get_popular_in_my_network", "get_feed"}

AppNext ==
    \/ \E u \in AppIds : \E following \in Listings(Following(u)) : LoadUser(u, following)
    \/ LoadFinish
    \/ \E u \in AppIds : \E status \in {201, 400, 500} : Register(u, status)
    \/ \E cu, uid \in AppIds : \E commit_ok \in BOOLEAN : HttpFollow(cu, uid, commit_ok)
    \/ \E cu, uid \in AppIds : \E commit_ok \in BOOLEAN : HttpUnfollow(cu, uid, commit_ok)
    \/ \E cu \in AppIds : GetFeed(cu)
    \/ \E cu \in AppIds : GetCurrentUserProfile(cu)
    \/ \E cu, uid \in AppIds : GetUserById(cu, uid)
    \/ \E cu, uid \in AppIds : GetUserFollowers(cu, uid)
    \/ \E cu, uid \in AppIds : GetUserFollowing(cu, uid)
    \/ \E cu \in AppIds : GetUserSuggestions(cu)
    \/ \E cu, uid \in AppIds : FindConnectionPath(cu, uid)
    \/ \E cu, uid \in AppIds : GetMutualConnections(cu, uid)
    \/ \E cu \in AppIds : GetInfluencers(cu)
    \/ \E cu \in AppIds : GetNetworkStatistics(cu)
    \/ \E cu \in AppIds : GetPopularInMyNetwork(cu)

\* the server: startup load, then requests handled one at a time
AppSpec == AppInit /\ [][AppNext]_vars

\* ------------------------------------------------- concurrent graph calls
\* FastAPI runs these handlers in a thread pool and SocialGraph takes no lock,
\* so calls of different threads interleave between statements.  A thread is
\* at a line of graph.py (pc) inside the call it makes.
Threads == 1..MaxThreads

IdleThread ==
    [op |-> "none", a |-> 0, b |-> 0, pc |-> "idle", user |-> 0, ret |-> "idle",
     raised |-> FALSE, seen |-> <<>>, calls |-> 0]

\* the first line of each call
FirstLine(op) ==
    CASE op = "follow_user" -> "f27"
      [] op = "unfollow_user" -> "u42"
      [] op = "is_following" -> "q63"
      [] op = "get_followers" -> "q59"

ConcOps == {"follow_user", "unfollow_user", "is_following", "get_followers"}

\* the graphs the concurrent calls start on: empty, or holding the one edge
\* that an earlier follow_user call made
StartGraphs ==
    {EmptyGraph} \cup
    {Graph(o.adj, o.rev) : o \in {follow_user(EmptyGraph, a, b) : a, b \in AppIds}}

ConcInit ==
    /\ \E g \in StartGraphs :
          /\ adjacency_list = g.adj
          /\ reverse_adjacency_list = g.rev
    /\ last = NoCall
    /\ trip = NoTrip
    /\ db_users = {}
    /\ db_followers = {}
    /\ phase = "off"
    /\ loaded = <<>>
    /\ threads = [t \in Threads |-> IdleThread]

At(t, line) == threads[t].pc = line

\* thread t moves to line pc
Goto(t, line) == threads' = [threads EXCEPT ![t].pc = line]

\* the call of thread t raises
Raise(t) == threads' = [threads EXCEPT ![t].pc = "done", ![t].raised = TRUE]

\* a handler thread calls op(a, b) on social_graph
StartCall(t, op, a, b) ==
    /\ threads[t].pc \in {"idle", "done"}
    /\ threads[t].calls < MaxCalls
    /\ threads' = [threads EXCEPT ![t] =
           [op |-> op, a |-> a, b |-> b, pc |-> FirstLine(op), user |-> 0, ret |-> "idle",
            raised |-> FALSE, seen |-> <<>>, calls |-> threads[t].calls + 1]]
    /\ UNCHANGED <<graphvars, last, trip, appvars>>

\* follow_user line 27 (and the call on line 28)
F27(t) ==
    /\ At(t, "f27")
    /\ threads' = IF threads[t].a \notin DOMAIN adjacency_list
                  THEN [threads EXCEPT ![t].pc = "a18", ![t].user = threads[t].a, ![t].ret = "f29"]
                  ELSE [threads EXCEPT ![t].pc = "f29"]
    /\ UNCHANGED <<graphvars, last, trip, appvars>>

\* follow_user line 29 (and the call on line 30)
F29(t) ==
    /\ At(t, "f29")
    /\ threads' = IF threads[t].b \notin DOMAIN adjacency_list
                  THEN [threads EXCEPT ![t].pc = "a18", ![t].user = threads[t].b, ![t].ret = "f33"]
                  ELSE [threads EXCEPT ![t].pc = "f33"]
    /\ UNCHANGED <<graphvars, last, trip, appvars>>

\* add_user line 18
A18(t) ==
    /\ At(t, "a18")
    /\ Goto(t, IF threads[t].user \notin DOMAIN adjacency_list THEN "a19" ELSE threads[t].ret)
    /\ UNCHANGED <<graphvars, last, trip, appvars>>

\* add_user line 19
A19(t) ==
    /\ At(t, "a19")
    /\ adjacency_list' = DictSet(adjacency_list, threads[t].user, <<>>)
    /\ Goto(t, "a20")
    /\ UNCHANGED <<reverse_adjacency_list, last, trip, appvars>>

\* add_user line 20
A20(t) ==
    /\ At(t, "a20")
    /\ reverse_adjacency_list' = DictSet(reverse_adjacency_list, threads[t].user, <<>>)
    /\ Goto(t, threads[t].ret)
    /\ UNCHANGED <<adjacency_list, last, trip, appvars>>

\* follow_user line 33
F33(t) ==
    /\ At(t, "f33")
    /\ Goto(t, IF ~Contains(adjacency_list[threads[t].a], threads[t].b) THEN "f34" ELSE "done")
    /\ UNCHANGED <<graphvars, last, trip, appvars>>

\* follow_user line 34
F34(t) ==
    /\ At(t, "f34")
    /\ adjacency_list' = DictSet(adjacency_list, threads[t].a,
                                 Append(adjacency_list[threads[t].a], threads[t].b))
    /\ Goto(t, "f35")
    /\ UNCHANGED <<reverse_adjacency_list, last, trip, appvars>>

\* follow_user line 35; KeyError while another thread is between lines 19 and 20
F35(t) ==
    /\ At(t, "f35")
    /\ IF threads[t].b \in DOMAIN reverse_adjacency_list
       THEN /\ reverse_adjacency_list' =
                   DictSet(reverse_adjacency_list, threads[t].b,
                           Append(reverse_adjacency_list[threads[t].b], threads[t].a))
            /\ Goto(t, "done")
       ELSE /\ Raise(t)
            /\ UNCHANGED reverse_adjacency_list
    /\ UNCHANGED <<adjacency_list, last, trip, appvars>>

\* unfollow_user line 42
U42(t) ==
    /\ At(t, "u42")
    /\ Goto(t, IF threads[t].a \in DOMAIN adjacency_list THEN "u43" ELSE "done")
    /\ UNCHANGED <<graphvars, last, trip, appvars>>

\* unfollow_user line 43
U43(t) ==
    /\ At(t, "u43")
    /\ Goto(t, IF Contains(adjacency_list[threads[t].a], threads[t].b) THEN "u44" ELSE "done")
    /\ UNCHANGED <<graphvars, last, trip, appvars>>

\* unfollow_user line 44; ValueError when the entry went away after line 43
U44(t) ==
    /\ At(t, "u44")
    /\ IF Contains(adjacency_list[threads[t].a], threads[t].b)
       THEN /\ adjacency_list' = DictSet(adjacency_list, threads[t].a,
                                         ListRemove(adjacency_list[threads[t].a], threads[t].b))
            /\ Goto(t, "u45")
       ELSE /\ Raise(t)
            /\ UNCHANGED adjacency_list
    /\ UNCHANGED <<reverse_adjacency_list, last, trip, appvars>>

\* unfollow_user line 45; KeyError or ValueError when the entry is not there
U45(t) ==
    /\ At(t, "u45")
    /\ IF /\ threads[t].b \in DOMAIN reverse_adjacency_list
          /\ Contains(reverse_adjacency_list[threads[t].b], threads[t].a)
       THEN /\ reverse_adjacency_list' =
                   DictSet(reverse_adjacency_list, threads[t].b,
                           ListRemove(reverse_adjacency_list[threads[t].b], threads[t].a))
            /\ Goto(t, "done")
       ELSE /\ Raise(t)
            /\ UNCHANGED reverse_adjacency_list
    /\ UNCHANGED <<adjacency_list, last, trip, appvars>>

\* is_following line 63
Q63(t) ==
    /\ At(t, "q63")
    /\ threads' = [threads EXCEPT ![t].pc = "done",
                      ![t].seen = IF is_following(TheGraph, threads[t].a, threads[t].b)
                                  THEN <<1>> ELSE <<0>>]
    /\ UNCHANGED <<graphvars, last, trip, appvars>>

\* get_followers line 59, asked about user b
Q59(t) ==
    /\ At(t, "q59")
    /\ threads' = [threads EXCEPT ![t].pc = "done",
                      ![t].seen = get_followers(TheGraph, threads[t].b)]
    /\ UNCHANGED <<graphvars, last, trip, appvars>>

ConcNext ==
    \E t \in Threads :
        \/ \E op \in ConcOps : \E a, b \in AppIds : StartCall(t, op, a, b)
        \/ F27(t) \/ F29(t) \/ A18(t) \/ A19(t) \/ A20(t)
        \/ F33(t) \/ F34(t) \/ F35(t)
        \/ U42(t) \/ U43(t) \/ U44(t) \/ U45(t)
        \/ Q63(t) \/ Q59(t)

\* calls of concurrent handlers, interleaved statement by statement
ConcSpec == ConcInit /\ [][ConcNext]_vars

\* ================================================================== claims

\* the pair (a, b) is held by both mappings of g
HasEdge(g, a, b) == is_following(g, a, b) /\ Contains(get_followers(g, b), a)

\* g with every entry b dropped from a's following list and every entry a
\* dropped from b's followers list
WithoutPair(g, a, b) ==
    Graph([u \in DOMAIN g.adj |->
             IF u = a THEN SelectSeq(g.adj[u], LAMBDA x : x # b) ELSE g.adj[u]],
          [u \in DOMAIN g.rev |->
             IF u = b THEN SelectSeq(g.rev[u], LAMBDA x : x # a) ELSE g.rev[u]])

\* C1: after any sequence of add_user, follow_user and unfollow_user calls,
\* v is in the following list of u exactly when u is in the followers list of v.
C1_Dual ==
    \A u, v \in Ids :
        Contains(get_following(TheGraph, u), v) <=> Contains(get_followers(TheGraph, v), u)

\* an unfollow_user call has just removed an edge and another edge is still held
C1_Witness ==
    /\ last.op = "unfollow_user"
    /\ HasEdge(PreGraph, last.a, last.b)
    /\ \E u, v \in Ids : HasEdge(TheGraph, u, v)

C5_RoundTripAnyPair ==
    trip.on => TheGraph = TripGraph

\* C5 as amended: follow_user(a, b) then unfollow_user(a, b) gives back the
\* graph the two calls started from when a and b were registered in it and a
\* did not follow b; neither call raises.
C5_RoundTrip ==
    (/\ trip.on
     /\ {last.a, last.b} \subseteq DOMAIN trip.adj
     /\ ~is_following(TripGraph, last.a, last.b))
        => /\ ~last.raised
           /\ TheGraph = TripGraph

\* a round trip over a pair of registered users that held other edges before it
C5_Witness ==
    /\ trip.on
    /\ {last.a, last.b} \subseteq DOMAIN trip.adj
    /\ ~is_following(TripGraph, last.a, last.b)
    /\ \E u, v \in Ids : HasEdge(TripGraph, u, v)

\* C6: unfollow_user never raises; it leaves both mappings alone when a does
\* not follow b and otherwise removes the pair (a, b) from both and nothing else.
C6_UnfollowNeverRaises ==
    last.op = "unfollow_user" =>
        /\ ~last.raised
        /\ ~is_following(PreGraph, last.a, last.b) => TheGraph = PreGraph
        /\ is_following(PreGraph, last.a, last.b) =>
              /\ ~is_following(TheGraph, last.a, last.b)
              /\ ~Contains(get_followers(TheGraph, last.b), last.a)
              /\ TheGraph = WithoutPair(PreGraph, last.a, last.b)

\* the users reached from s along at most k follow edges
RECURSIVE Within(_, _, _)
Within(g, s, k) ==
    IF k = 0 THEN {s}
    ELSE LET near == Within(g, s, k - 1)
         IN  near \cup UNION {Elems(get_following(g, x)) : x \in near}

\* a directed path leads from s to e
Reaches(g, s, e) == e \in Within(g, s, Cardinality(DOMAIN g.adj))

\* the number of edges of a shortest directed path from s to e
Distance(g, s, e) ==
    CHOOSE k \in 0..Cardinality(DOMAIN g.adj) :
        /\ e \in Within(g, s, k)
        /\ \A j \in 0..(k - 1) : e \notin Within(g, s, j)

\* C10: shortest_path_bfs(start, end) returns the empty sequence exactly when
\* an endpoint is unregistered or no directed path leads from start to end;
\* otherwise the result starts at start, ends at end, steps along follow edges
\* only and has as few edges as any directed path; for start = end it is [start].
C10_ShortestPath ==
    last.op = "shortest_path_bfs" =>
        LET g == TheGraph
            s == last.a
            e == last.b
            path == last.result
            registered == s \in DOMAIN g.adj /\ e \in DOMAIN g.adj
        IN  /\ (path = <<>>) <=> (~registered \/ ~Reaches(g, s, e))
            /\ path # <<>> =>
                  /\ path[1] = s
                  /\ path[Len(path)] = e
                  /\ \A i \in 1..(Len(path) - 1) : is_following(g, path[i], path[i + 1])
                  /\ Len(path) - 1 = Distance(g, s, e)
            /\ (registered /\ s = e) => path = <<s>>

\* a two-edge path was returned on a graph that holds a cycle
C10_Witness ==
    /\ last.op = "shortest_path_bfs"
    /\ Len(last.result) = 3
    /\ \E u, v \in Ids : u # v /\ detect_mutual_following(TheGraph, u, v)

\* the graph and table followers hold the same (follower, followed) pairs
Agree == ForwardPairs(TheGraph) = db_followers /\ ReversePairs(TheGraph) = db_followers

\* C2: once load_graph has run, and after every request, the pairs held by
\* the graph are the rows of table followers.
C2_GraphEqualsStore == Serving => Agree

\* C3: a handler that only queries the graph, get_feed included, leaves both
\* mappings as they were before the request.
C3_QueriesArePure == last.op \in ReadOps => TheGraph = PreGraph

\* the last request was a follow or unfollow whose db.commit() raised
CommitFailed ==
    /\ last.op \in {"http_follow_user", "http_unfollow_user"}
    /\ last.result = Status(500)
    /\ ~last.raised

\* C8: a follow or unfollow request whose db.commit() raises changes neither
\* the graph nor the store, so a graph and store that held the same pairs
\* before the request hold the same pairs after it.
C8_CommitFailureKeepsGraph ==
    [][CommitFailed' =>
          /\ adjacency_list' = adjacency_list
          /\ reverse_adjacency_list' = reverse_adjacency_list
          /\ db_followers' = db_followers
          /\ db_users' = db_users
          /\ Agree => Agree']_vars

\* db.commit() raised in a follow request that passed every check
C8_Witness ==
    /\ CommitFailed
    /\ last.op = "http_follow_user"
    /\ last.a # last.b
    /\ last.b \in db_users
    /\ <<last.a, last.b>> \notin db_followers
    /\ TheGraph = PreGraph

\* C9: when load_graph has finished, every user of the store is registered
\* in both mappings and the pairs of each mapping are the rows of table
\* followers, whatever the order of the users and of each user's rows; a user
\* first created by the replay of an edge keeps that edge when add_user
\* reaches it.
C9_LoadGraph ==
    last.op = "load_graph" =>
        /\ DOMAIN adjacency_list = db_users
        /\ DOMAIN reverse_adjacency_list = db_users
        /\ Agree

\* load_graph replayed an edge u -> v before the loop reached v
C9_Witness ==
    /\ last.op = "load_graph"
    /\ \E i, j \in DOMAIN last.result :
          /\ i < j
          /\ <<last.result[i], last.result[j]>> \in db_followers
          /\ Contains(get_followers(TheGraph, last.result[j]), last.result[i])

\* every call that was started has returned or raised
AllReturned == \A t \in Threads : threads[t].pc \in {"idle", "done"}

\* b is in a's following list exactly when a is in b's followers list
TwoSided ==
    \A a, b \in AppIds :
        Contains(get_following(TheGraph, a), b) <=> Contains(get_followers(TheGraph, b), a)

\* C7: with follow, unfollow and query calls of concurrent handlers
\* interleaved statement by statement, no state has an edge on one side only,
\* and none is left when every call has returned.
C7_NoOneSidedEdge ==
    /\ TwoSided
    /\ AllReturned => TwoSided

\* the second half of C7 on its own: what is left when every call has returned
C7_NoneLeftAtRest == AllReturned => TwoSided

RECURSIVE Around(_, _, _)
\* the users at most k hops from u when a follow edge is walked either way
Around(g, u, k) ==
    IF k = 0 THEN {u}
    ELSE LET near == Around(g, u, k - 1)
         IN  near \cup {v \in DOMAIN g.adj :
                           \E x \in near : HasEdge(g, x, v) \/ HasEdge(g, v, x)}

\* C11: get_community_size(id, max_depth) with max_depth >= 0 is the number of
\* users at most max_depth hops from id, follow edges walked in either
\* direction and id counted; it is 0 for an unregistered id.
C11_CommunitySize ==
    last.op = "get_community_size" =>
        last.result = <<IF last.a \in DOMAIN last.pre_adj
                        THEN Cardinality(Around(PreGraph, last.a, last.b))
                        ELSE 0>>

\* a community that max_depth cuts: someone is exactly max_depth hops away,
\* and is reached against the direction of a follow edge, and someone is farther
C11_Witness ==
    /\ last.op = "get_community_size"
    /\ last.b >= 1
    /\ last.result = <<Cardinality(Around(PreGraph, last.a, last.b))>>
    /\ Around(PreGraph, last.a, last.b) # Around(PreGraph, last.a, last.b - 1)
    /\ Around(PreGraph, last.a, last.b + 1) # Around(PreGraph, last.a, last.b)
    /\ \E v \in Around(PreGraph, last.a, 1) \ {last.a} : ~HasEdge(PreGraph, last.a, v)

\* the ids of a list of <<id, score>> pairs
PairIds(pairs) == {pairs[i][1] : i \in DOMAIN pairs}

\* C12: no pair returned by suggest_users_to_follow(id, limit) names id or a
\* user that id already follows, whatever the edges, id and limit.
C12_NoSelfNoFollowed ==
    last.op = "suggest_users_to_follow" =>
        \A p \in PairIds(last.result.pairs) :
            p # last.a /\ ~is_following(PreGraph, last.a, p)

\* a suggestion is returned although a followed user follows id back and a
\* two-hop path ends at a user id already follows (here the followed user itself)
C12_Witness ==
    /\ last.op = "suggest_users_to_follow"
    /\ last.result.pairs # <<>>
    /\ \E f \in DOMAIN last.pre_adj \ {last.a} :
           HasEdge(PreGraph, last.a, f) /\ HasEdge(PreGraph, f, last.a)
    /\ \E f \in DOMAIN last.pre_adj \ {last.a}, p \in DOMAIN last.pre_adj :
           HasEdge(PreGraph, last.a, f) /\ HasEdge(PreGraph, f, p) /\ HasEdge(PreGraph, last.a, p)

\* the users f with id -> f -> p
Via(g, id, p) == {f \in DOMAIN g.adj : HasEdge(g, id, f) /\ HasEdge(g, f, p)}

\* the users that follow p
FollowersOf(g, p) == {u \in DOMAIN g.adj : HasEdge(g, u, p)}

\* the users two hops from id that are neither id nor followed by id
Candidates(g, id) ==
    {p \in DOMAIN g.adj : Via(g, id, p) # {} /\ p # id /\ ~HasEdge(g, id, p)}

\* scores, in tenths, never go up along the list
NonIncreasing(pairs) ==
    \A i, j \in DOMAIN pairs : i < j => pairs[i][2] >= pairs[j][2]

\* C13: the full ranking behind suggest_users_to_follow(id, limit) holds each
\* candidate once, with score (number of distinct f with id -> f -> p) + 0.1 *
\* (number of followers of p), in non-increasing score order; the call returns
\* its first limit entries (for a negative limit, which C14 is about, some
\* leading part of it).
C13_SuggestionScores ==
    last.op = "suggest_users_to_follow" =>
        LET g == PreGraph
            full == rank_suggestions(g, last.a, last.result.keys)
            pairs == last.result.pairs
        IN  /\ PairIds(full) = Candidates(g, last.a)
            /\ Cardinality(PairIds(full)) = Len(full)
            /\ \A i \in DOMAIN full :
                   full[i][2] = 10 * Cardinality(Via(g, last.a, full[i][1]))
                                + Cardinality(FollowersOf(g, full[i][1]))
            /\ NonIncreasing(full)
            /\ Len(pairs) <= Len(full)
            /\ pairs = SubSeq(full, 1, Len(pairs))
            /\ last.b >= 0 => Len(pairs) = (IF last.b < Len(full) THEN last.b ELSE Len(full))

\* two candidates with the same count of two-hop paths, ranked by their
\* followers, and a limit that returns the first of them only
C13_Witness ==
    /\ last.op = "suggest_users_to_follow"
    /\ last.b = 1
    /\ Len(last.result.pairs) = 1
    /\ LET full == rank_suggestions(PreGraph, last.a, last.result.keys)
       IN  /\ Len(full) = 2
           /\ full[1][2] > full[2][2]
           /\ full[1][1] > full[2][1]

RankOps == {"suggest_users_to_follow", "get_influencers", "get_popular_in_network"}

\* C14: suggest_users_to_follow, get_influencers and get_popular_in_network
\* return at most limit entries for every limit the handlers pass on; a limit
\* below 0 is read as allowing no entry.
C14_AtMostLimit ==
    last.op \in RankOps =>
        Len(last.result.pairs) <= (IF last.b > 0 THEN last.b ELSE 0)

\* the registered users with at least min_followers followers
Qualifying(g, min_followers) ==
    {u \in DOMAIN g.rev : Cardinality(FollowersOf(g, u)) >= min_followers}

\* C15: get_influencers(min_followers, limit) returns <<user, count>> pairs,
\* count being the user's number of followers, for registered users with
\* count >= min_followers only, each once, in non-increasing count order; a
\* qualifying user is left out only when limit returned users have counts at
\* least as high; with min_followers = 0 and limit = N >= 0 the result is the N
\* users with the highest counts (all of them when fewer are registered).
C15_Influencers ==
    last.op = "get_influencers" =>
        LET g == PreGraph
            pairs == last.result.pairs
            count == [u \in DOMAIN g.rev |-> Cardinality(FollowersOf(g, u))]
            qualifying == {u \in DOMAIN g.rev : count[u] >= last.a}
            returned == PairIds(pairs)
        IN  /\ returned \subseteq qualifying
            /\ Cardinality(returned) = Len(pairs)
            /\ \A i \in DOMAIN pairs : pairs[i][2] = count[pairs[i][1]]
            /\ NonIncreasing(pairs)
            /\ \A u \in qualifying \ returned :
                   Cardinality({i \in DOMAIN pairs : pairs[i][2] >= count[u]}) >= last.b
            /\ (last.a = 0 /\ last.b >= 0) =>
                   /\ Len(pairs) = (IF last.b < Cardinality(DOMAIN g.rev)
                                    THEN last.b ELSE Cardinality(DOMAIN g.rev))
                   /\ \A u \in DOMAIN g.rev \ returned :
                          \A i \in DOMAIN pairs : pairs[i][2] >= count[u]

\* three registered users, one below the threshold, one cut off by the limit
C15_Witness ==
    /\ last.op = "get_influencers"
    /\ last.a = 1
    /\ last.b = 1
    /\ Cardinality(DOMAIN last.pre_rev) = 3
    /\ Cardinality(Qualifying(PreGraph, 1)) = 2
    /\ Len(last.result.pairs) = 1

\* C16: for k > 0 and N >= 0, every pair get_influencers(k, N) returns is also
\* returned, with the same count, by get_influencers(0, N) on the same graph.
C16_ThresholdMonotone ==
    (last.op = "get_influencers" /\ last.a > 0 /\ last.b >= 0) =>
        LET all == get_influencers(PreGraph, last.result.keys, 0, last.b)
        IN  \A i \in DOMAIN last.result.pairs :
                \E j \in DOMAIN all : all[j] = last.result.pairs[i]

\* the limit cuts a tie: two users qualify with the same count, one is
\* returned, and get_influencers(0, N) is cut by the limit as well
C16_Witness ==
    /\ last.op = "get_influencers"
    /\ last.a = 1
    /\ last.b = 1
    /\ Len(last.result.pairs) = 1
    /\ \E u \in Qualifying(PreGraph, 1) \ PairIds(last.result.pairs) :
           Cardinality(FollowersOf(PreGraph, u)) = last.result.pairs[1][2]
    /\ Cardinality(DOMAIN last.pre_rev) = 3

\* the distinct (follower, followed) pairs of the following lists
Edges(g) == {<<a, b>> \in (DOMAIN g.adj) \X (DOMAIN g.adj) : is_following(g, a, b)}

\* C17: get_network_stats().total_connections is the sum of the lengths of
\* the following lists, which is the number of distinct (follower, followed)
\* edges and the sum of the lengths of the followers lists; total_users is
\* the number of registered ids; the average is 0 when there are no users.
C17_NetworkStats ==
    last.op = "get_network_stats" =>
        LET g == PreGraph
        IN  /\ last.result.total_connections = sum_len(g.adj, DOMAIN g.adj)
            /\ last.result.total_connections = Cardinality(Edges(g))
            /\ last.result.total_connections = sum_len(g.rev, DOMAIN g.rev)
            /\ last.result.total_users = Cardinality(DOMAIN g.adj)
            /\ (DOMAIN g.adj = {}) => last.result.average_followers = 0

\* C18: an id is a key of adjacency_list exactly when it is a key of
\* reverse_adjacency_list; after follow_user(a, b) both a and b are keys of
\* both; add_user on a registered id changes nothing.
C18_SameKeys ==
    /\ DOMAIN adjacency_list = DOMAIN reverse_adjacency_list
    /\ last.op = "follow_user" =>
           {last.a, last.b} \subseteq (DOMAIN adjacency_list \cap DOMAIN reverse_adjacency_list)
    /\ (last.op = "add_user" /\ last.a \in DOMAIN last.pre_adj) => TheGraph = PreGraph

\* add_user called for a user that follows someone and is followed by someone
C18_Witness ==
    /\ last.op = "add_user"
    /\ last.a \in DOMAIN last.pre_adj
    /\ last.pre_adj[last.a] # <<>>
    /\ last.pre_rev[last.a] # <<>>

\* C19: get_mutual_followers(a, b) returns exactly the users that both a and
\* b follow and get_mutual_friends(a, b) exactly the users that follow both a
\* and b, each user once; the result is empty when either id is unregistered.
C19_MutualSets ==
    /\ last.op = "get_mutual_followers" =>
           /\ Elems(last.result) = {u \in DOMAIN last.pre_adj :
                                       HasEdge(PreGraph, last.a, u) /\ HasEdge(PreGraph, last.b, u)}
           /\ Len(last.result) = Cardinality(Elems(last.result))
           /\ ~({last.a, last.b} \subseteq DOMAIN last.pre_adj) => last.result = <<>>
    /\ last.op = "get_mutual_friends" =>
           /\ Elems(last.result) = {u \in DOMAIN last.pre_adj :
                                       HasEdge(PreGraph, u, last.a) /\ HasEdge(PreGraph, u, last.b)}
           /\ Len(last.result) = Cardinality(Elems(last.result))
           /\ ~({last.a, last.b} \subseteq DOMAIN last.pre_adj) => last.result = <<>>

\* C20: when follow_user(a, b) calls of concurrent handlers interleave
\* statement by statement, then once all have returned b is at most once in
\* a's following list and a at most once in b's followers list.
C20_NoDuplicateEdge ==
    AllReturned =>
        \A a, b \in DOMAIN adjacency_list :
            /\ Count(adjacency_list[a], b) <= 1
            /\ b \in DOMAIN reverse_adjacency_list =>
                   Count(reverse_adjacency_list[b], a) <= 1

LoopOps == {"shortest_path_bfs", "get_community_size"}

\* a search call has been entered and has not returned
Running == last.op \in LoopOps /\ last.result.pc = "while"

\* a search call has returned
Returned == last.op \in LoopOps /\ last.result.pc = "return"

\* no user has been expanded twice by the call, and a call that returned did
\* so with its queue empty, or with the target found, or on an early return
ExpandedOnce ==
    last.op \in LoopOps =>
        /\ Cardinality(Elems(last.result.expanded)) = Len(last.result.expanded)
        /\ last.result.pc = "return" =>
               \/ last.result.queue = <<>>
               \/ last.op = "shortest_path_bfs" /\ last.result.value # <<>>

\* C21: on every graph, cycles, reciprocal edges and self-loops included,
\* shortest_path_bfs and get_community_size expand each user at most once per
\* call and return: the queue empties or the target is found.
C21_SearchTerminates == []ExpandedOnce /\ (Running ~> Returned)

\* get_community_size has returned on a graph where the start user and a
\* user it follows follow each other: that user was put in the queue twice, as
\* a followed user and as a follower, and expanded once
C21_Witness ==
    /\ last.op = "get_community_size"
    /\ last.result.pc = "return"
    /\ last.b >= 1
    /\ Len(last.result.expanded) = 2
    /\ \E x \in DOMAIN last.pre_adj \ {last.a} :
           /\ HasEdge(PreGraph, last.a, x)
           /\ HasEdge(PreGraph, x, last.a)
           /\ last.result.expanded = <<last.a, x>>

====
